---- MODULE Spec2Model ----
(***************************************************************************)
(* Model of registrant's Geodatabase accessor (registrant/_geodatabase.py). *)
(*                                                                         *)
(* A geodatabase is described once (system catalog rows and datasets) and  *)
(* read through one of two backends, selected by the module-level flag     *)
(* arcpy_found.  Every public method is one action; the value it returns   *)
(* or the exception it raises is recorded in ret.                          *)
(***************************************************************************)
EXTENDS Integers, Sequences, FiniteSets, TLC

VARIABLES
    arcpy_found,   \* module global: TRUE iff `import arcpy` succeeded
    catalog,       \* rows of the GDB_Items system table (Definition column)
    items,         \* tables and feature classes stored in the geodatabase
    desc,          \* what arcpy.Describe(path) reports for the workspace
    workspace,     \* arcpy.env.workspace (process-wide geoprocessing setting)
    hash_order,    \* how this interpreter's string hash orders a dict's keys
    self,          \* the Geodatabase instance's attributes
    ret            \* outcome of the last call

vars == <<arcpy_found, catalog, items, desc, workspace, hash_order, self, ret>>

(***************************************************************************)
(* Bounds                                                                  *)
(***************************************************************************)
MaxRows == 2
MaxItems == 2

(***************************************************************************)
(* Python values.  Values of different Python types are kept apart by a    *)
(* type tag so that they can be stored side by side in one mapping.        *)
(***************************************************************************)
None == "<None>"
Str(s) == [t |-> "str", s |-> s]
Num(n) == [t |-> "num", n |-> n]
Tuple(a, b) == [t |-> "tuple", lo |-> a, hi |-> b]
Dict(d) == [t |-> "dict", d |-> d]

Return(v) == [status |-> "return", value |-> v]
Raise(e) == [status |-> "raise", exc |-> e]

\* OrderedDict / dict: a sequence of <<key, value>> pairs.  Assigning to an
\* existing key replaces the value in place, a new key is appended.
RECURSIVE KeyIdx(_, _, _)
KeyIdx(od, k, i) ==
    IF i > Len(od) THEN 0
    ELSE IF od[i][1] = k THEN i
    ELSE KeyIdx(od, k, i + 1)

OdSet(od, k, v) ==
    LET i == KeyIdx(od, k, 1)
    IN IF i = 0 THEN Append(od, <<k, v>>)
       ELSE [od EXCEPT ![i] = <<k, v>>]

Keys(od) == [i \in 1..Len(od) |-> od[i][1]]
KeySet(od) == {od[i][1] : i \in 1..Len(od)}
HasKey(od, k) == KeyIdx(od, k, 1) # 0
OdGet(od, k) == od[KeyIdx(od, k, 1)][2]

\* dict.get(key, default) on a sequence of <<key, value>> string pairs
MapGet(m, k, default) ==
    IF HasKey(m, k) THEN OdGet(m, k) ELSE default

(***************************************************************************)
(* XML elements (xml.etree.ElementTree.Element)                            *)
(***************************************************************************)
El(tag, text, kids) == [tag |-> tag, text |-> text, kids |-> kids]
Leaf(tag, text) == El(tag, text, <<>>)

RECURSIVE FindIdx(_, _, _)
FindIdx(el, tag, i) ==
    IF i > Len(el.kids) THEN 0
    ELSE IF el.kids[i].tag = tag THEN i
    ELSE FindIdx(el, tag, i + 1)

\* Element.find(tag): the first direct child with that tag, else None
Has(el, tag) == FindIdx(el, tag, 1) # 0
find(el, tag) == el.kids[FindIdx(el, tag, 1)]

\* Element.findall(tag): all direct children with that tag, document order
findall(el, tag) == SelectSeq(el.kids, LAMBDA c : c.tag = tag)

\* float(text) on the texts that occur in the catalogs below
NumericTexts == <<
    <<"0", 0>>, <<"1", 1>>, <<"1.0", 1>>, <<"5", 5>>, <<"5.0", 5>>, <<"-2", -2>> >>

float(text) ==
    IF text = None THEN Raise("TypeError")
    ELSE IF HasKey(NumericTexts, text) THEN Return(OdGet(NumericTexts, text))
    ELSE Raise("ValueError")

(***************************************************************************)
(* Static label tables of registrant/_util_mappings.py: sequences of       *)
(* <<native name, label>> pairs in declaration order.                      *)
(***************************************************************************)
GDB_RELEASE == <<
    <<"2,2,0", "9.2">>, <<"2,3,0", "9.3, 9.3.1">>, <<"3,0,0", "10.0+">> >>

GDB_WKSPC_TYPE == <<
    <<"FileGDB", "File geodatabase">>,
    <<"Access", "Personal geodatabase">>,
    <<"Sde", "Enterprise geodatabase">> >>

GDB_PROPS == <<
    <<"path", "Path">>, <<"release", "Release">>,
    <<"wkspc_type", "Workspace type">> >>

GDB_DOMAIN_PROPS == <<
    <<"name", "Name">>, <<"description", "Description">>,
    <<"owner", "Owner">>, <<"domainType", "Domain type">>,
    <<"type", "Field type">>, <<"range", "Range">>,
    <<"codedValues", "Coded values">> >>

OGR_GDB_DOMAIN_PROPS == <<
    <<"DomainName", "Name">>, <<"Description", "Description">>,
    <<"Owner", "Owner">>, <<"domainType", "Domain type">>,
    <<"FieldType", "Field type">>, <<"range", "Range">>,
    <<"codedValues", "Coded values">> >>

OGR_DOMAIN_PROPS_MAPPINGS == <<
    <<"GPCodedValueDomain2", "CodedValue">>,
    <<"GPRangeDomain2", "Range">>,
    <<"esriFieldTypeInteger", "Long">>,
    <<"esriFieldTypeString", "Text">> >>

GDB_TABLE_PROPS == <<
    <<"name", "Name">>, <<"aliasName", "Alias">>,
    <<"OIDFieldName", "ObjectID">> >>

GDB_FC_PROPS == <<
    <<"name", "Name">>, <<"aliasName", "Alias">>,
    <<"shapeType", "Geometry type">> >>

(***************************************************************************)
(* Rows of GDB_Items.  The Definition column is null, an XML document      *)
(* (kept as the tree ET.fromstring builds from it) or text that is not     *)
(* well-formed XML.                                                        *)
(***************************************************************************)
NullRow == [kind |-> "null", root |-> Leaf("", None)]
BadRow == [kind |-> "malformed", root |-> Leaf("", None)]
Xml(el) == [kind |-> "xml", root |-> el]

\* ET.fromstring(item)
fromstring(item) ==
    IF item.kind = "xml" THEN Return(item.root) ELSE Raise("ParseError")

(***************************************************************************)
(* Geodatabase._ogr_get_domains                                            *)
(***************************************************************************)
DomainTags == {"GPCodedValueDomain2", "GPRangeDomain2"}

\* The code is Python 2 (xrange): a defaultdict iterates in hash-table order,
\* which the language leaves unspecified.  The string hash is fixed when the
\* interpreter starts (PYTHONHASHSEED, -R), and with it where the two tags
\* land in the table: in different slots, one of them always first, or in
\* the same slot, where the tag inserted first keeps the slot and the other
\* is probed to a slot after it or before it.
HashOrders == {"coded_first", "range_first", "insertion", "reverse_insertion"}

\* domains[tag] = defs on that dict: an existing key keeps its slot, a new
\* key takes the slot the hash order gives it
tag_dict_set(order, domains, tag, defs) ==
    IF HasKey(domains, tag) THEN OdSet(domains, tag, defs)
    ELSE IF order = "insertion" THEN Append(domains, <<tag, defs>>)
    ELSE IF order = "reverse_insertion" THEN << <<tag, defs>> >> \o domains
    ELSE IF (order = "coded_first") = (tag = "GPCodedValueDomain2")
    THEN << <<tag, defs>> >> \o domains
    ELSE Append(domains, <<tag, defs>>)

\* ogr_domains_scan that keeps only the last definition seen for a tag
RECURSIVE ogr_domains_scan_last(_, _, _, _)
ogr_domains_scan_last(order, cat, i, domains) ==
    IF i > Len(cat) THEN Return(domains)
    ELSE IF cat[i].kind = "null"
    THEN ogr_domains_scan_last(order, cat, i + 1, domains)
    ELSE LET p == fromstring(cat[i])
         IN IF p.status = "raise" THEN p
            ELSE IF p.value.tag \in DomainTags
            THEN ogr_domains_scan_last(order, cat, i + 1,
                     tag_dict_set(order, domains, p.value.tag, <<p.value>>))
            ELSE ogr_domains_scan_last(order, cat, i + 1, domains)

RECURSIVE ogr_domains_scan(_, _, _, _)
ogr_domains_scan(order, cat, i, domains) ==
    IF i > Len(cat) THEN Return(domains)
    ELSE IF cat[i].kind = "null"
    THEN ogr_domains_scan(order, cat, i + 1, domains)
    ELSE LET p == fromstring(cat[i])
         IN IF p.status = "raise" THEN p
            ELSE IF p.value.tag \in DomainTags
            THEN ogr_domains_scan(order, cat, i + 1,
                     tag_dict_set(order, domains, p.value.tag,
                           Append(MapGet(domains, p.value.tag, <<>>), p.value)))
            ELSE ogr_domains_scan(order, cat, i + 1, domains)

\* tag -> list of definitions, tags in the dict's iteration order
ogr_get_domains(order, cat) == ogr_domains_scan(order, cat, 1, <<>>)

(***************************************************************************)
(* Geodatabase.get_domains, fallback branch                                *)
(***************************************************************************)
\* range_value with the two bounds in the wrong order
range_value_swapped(domain) ==
    IF ~Has(domain, "MinValue") THEN Return(Str(""))
    ELSE LET lo == float(find(domain, "MinValue").text)
         IN IF lo.status = "raise" THEN lo
            ELSE IF ~Has(domain, "MaxValue") THEN Return(Str(""))
            ELSE LET hi == float(find(domain, "MaxValue").text)
                 IN IF hi.status = "raise" THEN hi
                    ELSE Return(Tuple(hi.value, lo.value))

\* k == 'range'
range_value(domain) ==
    IF ~Has(domain, "MinValue") THEN Return(Str(""))
    ELSE LET lo == float(find(domain, "MinValue").text)
         IN IF lo.status = "raise" THEN lo
            ELSE IF ~Has(domain, "MaxValue") THEN Return(Str(""))
            ELSE LET hi == float(find(domain, "MaxValue").text)
                 IN IF hi.status = "raise" THEN hi
                    ELSE Return(Tuple(lo.value, hi.value))

\* cv_dict keyed by the display name instead of the code
RECURSIVE cv_dict_by_name(_, _, _)
cv_dict_by_name(cvs, i, d) ==
    IF i > Len(cvs) THEN Return(Dict(d))
    ELSE IF ~Has(cvs[i], "Code") \/ ~Has(cvs[i], "Name")
    THEN Raise("AttributeError")
    ELSE cv_dict_by_name(cvs, i + 1,
             OdSet(d, find(cvs[i], "Name").text, find(cvs[i], "Code").text))

RECURSIVE cv_dict(_, _, _)
cv_dict(cvs, i, d) ==
    IF i > Len(cvs) THEN Return(Dict(d))
    ELSE IF ~Has(cvs[i], "Code") \/ ~Has(cvs[i], "Name")
    THEN Raise("AttributeError")
    ELSE cv_dict(cvs, i + 1,
                 OdSet(d, find(cvs[i], "Code").text, find(cvs[i], "Name").text))

\* k == 'codedValues'
coded_values(domain) ==
    IF ~Has(domain, "CodedValues") THEN Return(Str(""))
    ELSE LET r == cv_dict(findall(find(domain, "CodedValues"), "CodedValue"),
                          1, <<>>)
         IN IF r.status = "raise" THEN Return(Str("")) ELSE r

\* any other k
plain_value(domain, k) ==
    IF ~Has(domain, k) THEN Return(Str(""))
    ELSE LET text == find(domain, k).text
         IN IF text = None \/ text = "" THEN Return(Str(""))
            ELSE Return(Str(MapGet(OGR_DOMAIN_PROPS_MAPPINGS, text, text)))

domain_type_value(domain_type) ==
    IF HasKey(OGR_DOMAIN_PROPS_MAPPINGS, domain_type)
    THEN Return(Str(OdGet(OGR_DOMAIN_PROPS_MAPPINGS, domain_type)))
    ELSE Raise("KeyError")

ogr_prop_value(domain_type, domain, k) ==
    IF k = "domainType" THEN domain_type_value(domain_type)
    ELSE IF k = "range" THEN range_value(domain)
    ELSE IF k = "codedValues" THEN coded_values(domain)
    ELSE plain_value(domain, k)

\* the loop over OGR_GDB_DOMAIN_PROPS for one domain
RECURSIVE ogr_domain_od(_, _, _, _)
ogr_domain_od(domain_type, domain, j, od) ==
    IF j > Len(OGR_GDB_DOMAIN_PROPS) THEN Return(od)
    ELSE LET val == ogr_prop_value(domain_type, domain,
                                   OGR_GDB_DOMAIN_PROPS[j][1])
         IN IF val.status = "raise" THEN val
            ELSE ogr_domain_od(domain_type, domain, j + 1,
                     OdSet(od, OGR_GDB_DOMAIN_PROPS[j][2], val.value))

\* the loops over gdb_domains.items() and over each tag's definitions
RECURSIVE ogr_domains_props(_, _, _, _)
ogr_domains_props(gdb_domains, g, n, domains_props) ==
    IF g > Len(gdb_domains) THEN Return(domains_props)
    ELSE IF n > Len(gdb_domains[g][2])
    THEN ogr_domains_props(gdb_domains, g + 1, 1, domains_props)
    ELSE LET od == ogr_domain_od(gdb_domains[g][1], gdb_domains[g][2][n],
                                 1, <<>>)
         IN IF od.status = "raise" THEN od
            ELSE ogr_domains_props(gdb_domains, g, n + 1,
                                   Append(domains_props, od.value))

get_domains_ogr(order, cat) ==
    LET gdb_domains == ogr_get_domains(order, cat)
    IN IF gdb_domains.status = "raise" THEN gdb_domains
       ELSE ogr_domains_props(gdb_domains.value, 1, 1, <<>>)

(***************************************************************************)
(* Geodatabase._ogr_get_gdb_metadata                                       *)
(***************************************************************************)
\* xml is <<>> while the local name is unbound, <<element>> once assigned
RECURSIVE metadata_scan(_, _, _)
metadata_scan(cat, i, xml) ==
    IF i > Len(cat)
    THEN IF xml = <<>> THEN Raise("UnboundLocalError") ELSE Return(xml[1])
    ELSE IF cat[i].kind = "null" THEN metadata_scan(cat, i + 1, xml)
    ELSE LET p == fromstring(cat[i])
         IN IF p.status = "raise" THEN p
            ELSE IF p.value.tag = "DEWorkspace" THEN Return(p.value)
            ELSE metadata_scan(cat, i + 1, <<p.value>>)

ogr_get_gdb_metadata(cat) == metadata_scan(cat, 1, <<>>)

(***************************************************************************)
(* Geodatabase._get_release and Geodatabase._get_wkspc_type                *)
(***************************************************************************)
VersionTags == <<"MajorVersion", "MinorVersion", "BugfixVersion">>

\* ','.join([...]) of the three version texts
version_triplet(xml) ==
    IF \E j \in 1..3 : ~Has(xml, VersionTags[j]) THEN Raise("AttributeError")
    ELSE IF \E j \in 1..3 : find(xml, VersionTags[j]).text = None
    THEN Raise("TypeError")
    ELSE Return(find(xml, "MajorVersion").text \o "," \o
                find(xml, "MinorVersion").text \o "," \o
                find(xml, "BugfixVersion").text)

get_release(af, cat, d) ==
    IF af THEN Return(MapGet(GDB_RELEASE, d.release, ""))
    ELSE LET xml == ogr_get_gdb_metadata(cat)
         IN IF xml.status = "raise" THEN xml
            ELSE LET key == version_triplet(xml.value)
                 IN IF key.status = "raise" THEN key
                    ELSE Return(MapGet(GDB_RELEASE, key.value, ""))

\* key.lower() in workspaceFactoryProgID.lower(), for the program ids below
ProgIdKeys == <<
    <<"esriDataSourcesGDB.FileGDBWorkspaceFactory.1", {"FileGDB"}>>,
    <<"esriDataSourcesGDB.AccessWorkspaceFactory.1", {"Access"}>>,
    <<"esriDataSourcesGDB.SdeWorkspaceFactory.1", {"Sde"}>>,
    <<"esriDataSourcesFile.ShapefileWorkspaceFactory.1", {}>> >>

key_in_progid(key, progid) == key \in MapGet(ProgIdKeys, progid, {})

get_wkspc_type(af, d) ==
    IF af
    THEN LET hits == SelectSeq(GDB_WKSPC_TYPE,
                               LAMBDA kv : key_in_progid(kv[1], d.progid))
         IN IF hits = <<>> THEN Raise("IndexError") ELSE Return(hits[1][2])
    ELSE Return("File geodatabase")

(***************************************************************************)
(* Geodatabase.__init__ and Geodatabase.get_pretty_props                   *)
(***************************************************************************)
path == "C:/data/parcels.gdb"

\* the instance __dict__ after a successful construction
geodatabase_init(af, cat, d) ==
    LET release == get_release(af, cat, d)
    IN IF release.status = "raise" THEN release
       ELSE LET wkspc_type == get_wkspc_type(af, d)
            IN IF wkspc_type.status = "raise" THEN wkspc_type
               ELSE Return(<< <<"path", Str(path)>>,
                              <<"release", Str(release.value)>>,
                              <<"wkspc_type", Str(wkspc_type.value)>> >>)

RECURSIVE pretty_props(_, _, _)
pretty_props(dict, j, od) ==
    IF j > Len(GDB_PROPS) THEN Return(od)
    ELSE IF ~HasKey(dict, GDB_PROPS[j][1]) THEN Raise("KeyError")
    ELSE pretty_props(dict, j + 1,
                      OdSet(od, GDB_PROPS[j][2], OdGet(dict, GDB_PROPS[j][1])))

get_pretty_props(dict) == pretty_props(dict, 1, <<>>)

(***************************************************************************)
(* Datasets of the geodatabase and the two libraries' views of them.       *)
(* An item is a layer: geom is its geometry column ("" for a table), fd    *)
(* the feature dataset holding it ("" at the root), fail the point where   *)
(* reading it breaks, rows its record count.                               *)
(***************************************************************************)
RECURSIVE item_named(_, _, _)
item_named(its, name, i) ==
    IF its[i].name = name THEN its[i] ELSE item_named(its, name, i + 1)

names_of(its) == [i \in 1..Len(its) |-> its[i].name]

\* arcpy.ListTables() under the current arcpy.env.workspace
ListTables(its, ws) ==
    IF ws = <<path>>
    THEN names_of(SelectSeq(its, LAMBDA it : it.geom = ""))
    ELSE <<>>

\* arcpy.ListFeatureClasses() under the current arcpy.env.workspace
ListFeatureClasses(its, ws) ==
    IF ws = <<path>>
    THEN names_of(SelectSeq(its, LAMBDA it : it.geom # "" /\ it.fd = ""))
    ELSE IF Len(ws) = 2 /\ ws[1] = path
    THEN names_of(SelectSeq(its, LAMBDA it : it.geom # "" /\ it.fd = ws[2]))
    ELSE <<>>

\* arcpy.ListDatasets(feature_type='feature'): names in order of appearance
RECURSIVE dataset_names(_, _, _)
dataset_names(its, i, fds) ==
    IF i > Len(its) THEN fds
    ELSE IF its[i].geom # "" /\ its[i].fd # ""
            /\ \A j \in 1..Len(fds) : fds[j] # its[i].fd
    THEN dataset_names(its, i + 1, Append(fds, its[i].fd))
    ELSE dataset_names(its, i + 1, fds)

ListDatasets(its, ws) ==
    IF ws = <<path>> THEN dataset_names(its, 1, <<>>) ELSE <<>>

\* layer_names without the `not` of the table filter
layer_names_spatial_only(its, spatial) ==
    names_of(SelectSeq(its, LAMBDA it : it.geom # ""))

\* ds.GetLayerByIndex(i).GetName() for the layers that pass the test on
\* GetGeometryColumn(); spatial = TRUE keeps the layers with a truthy column
layer_names(its, spatial) ==
    names_of(SelectSeq(its, LAMBDA it : (it.geom # "") = spatial))

\* attributes of Table / FeatureClass (arcpy) and TableOgr / FeatureClassOgr
descriptor(af, item) ==
    IF item.geom = ""
    THEN IF af
         THEN << <<"name", Str(item.name)>>, <<"aliasName", Str(item.name)>>,
                 <<"OIDFieldName", Str("OBJECTID")>> >>
         ELSE << <<"name", Str(item.name)>>,
                 <<"OIDFieldName", Str("OBJECTID")>> >>
    ELSE IF af
         THEN << <<"name", Str(item.name)>>, <<"aliasName", Str(item.name)>>,
                 <<"shapeType", Str("Polygon")>> >>
         ELSE << <<"name", Str(item.name)>>, <<"shapeType", Str("Polygon")>> >>

\* for k, v in PROPS.items(): od[v] = getattr(instance, k, '')
RECURSIVE project(_, _, _, _)
project(inst, props, j, od) ==
    IF j > Len(props) THEN od
    ELSE project(inst, props, j + 1,
                 OdSet(od, props[j][2], MapGet(inst, props[j][1], Str(""))))

\* body of one loop pass: descriptor, projection, row count
read_entry(af, its, name, props) ==
    LET item == item_named(its, name, 1)
    IN IF item.fail = "open" THEN Raise("RuntimeError")
       ELSE IF item.fail = "count" THEN Raise("RuntimeError")
       ELSE Return(OdSet(project(descriptor(af, item), props, 1, <<>>),
                         "Row count", Num(item.rows)))

Out(status, value, exc, printed, ws) ==
    [status |-> status, value |-> value, exc |-> exc,
     printed |-> printed, ws |-> ws]

\* a loop whose body sits in try/except Exception: a failing pass prints
\* a notice and the loop goes on
RECURSIVE guarded_loop(_, _, _, _, _, _, _)
guarded_loop(af, its, names, i, props, acc, printed) ==
    IF i > Len(names) THEN [value |-> acc, printed |-> printed]
    ELSE LET od == read_entry(af, its, names[i], props)
         IN IF od.status = "raise"
            THEN guarded_loop(af, its, names, i + 1, props, acc,
                              Append(printed, names[i]))
            ELSE guarded_loop(af, its, names, i + 1, props,
                              Append(acc, od.value), printed)

(***************************************************************************)
(* Geodatabase.get_tables                                                  *)
(***************************************************************************)
\* get_tables that puts the caller's workspace back before returning
get_tables_restoring(af, its, ws) ==
    LET r == guarded_loop(af, its,
                 IF af THEN ListTables(its, <<path>>)
                 ELSE layer_names(its, FALSE),
                 1, GDB_TABLE_PROPS, <<>>, <<>>)
    IN Out("return", r.value, "", r.printed, ws)

get_tables(af, its, ws) ==
    IF af
    THEN LET r == guarded_loop(TRUE, its, ListTables(its, <<path>>), 1,
                               GDB_TABLE_PROPS, <<>>, <<>>)
         IN Out("return", r.value, "", r.printed, <<path>>)
    ELSE LET r == guarded_loop(FALSE, its, layer_names(its, FALSE), 1,
                               GDB_TABLE_PROPS, <<>>, <<>>)
         IN Out("return", r.value, "", r.printed, ws)

(***************************************************************************)
(* Geodatabase.get_feature_classes                                         *)
(***************************************************************************)
\* primary branch: the loop over arcpy.ListFeatureClasses() of one container
RECURSIVE fc_loop(_, _, _, _, _)
fc_loop(its, names, i, fd, fcs) ==
    IF i > Len(names) THEN Return(fcs)
    ELSE LET od == read_entry(TRUE, its, names[i], GDB_FC_PROPS)
         IN IF od.status = "raise" THEN od
            ELSE fc_loop(its, names, i + 1, fd,
                         Append(fcs, OdSet(od.value, "Feature dataset", Str(fd))))

\* fds_loop that never moves the workspace into the feature dataset
RECURSIVE fds_loop_at_root(_, _, _, _)
fds_loop_at_root(its, fds, g, fcs) ==
    IF g > Len(fds)
    THEN LET r == fc_loop(its, ListFeatureClasses(its, <<path>>), 1, "", fcs)
         IN IF r.status = "raise"
            THEN Out("raise", <<>>, r.exc, <<>>, <<path>>)
            ELSE Out("return", r.value, "", <<>>, <<path>>)
    ELSE LET r == fc_loop(its, ListFeatureClasses(its, <<path>>), 1,
                          fds[g], fcs)
         IN IF r.status = "raise"
            THEN Out("raise", <<>>, r.exc, <<>>, <<path>>)
            ELSE fds_loop_at_root(its, fds, g + 1, r.value)

\* primary branch: feature datasets first, then the geodatabase root
RECURSIVE fds_loop(_, _, _, _)
fds_loop(its, fds, g, fcs) ==
    IF g > Len(fds)
    THEN LET r == fc_loop(its, ListFeatureClasses(its, <<path>>), 1, "", fcs)
         IN IF r.status = "raise"
            THEN Out("raise", <<>>, r.exc, <<>>, <<path>>)
            ELSE Out("return", r.value, "", <<>>, <<path>>)
    ELSE LET r == fc_loop(its, ListFeatureClasses(its, <<path, fds[g]>>), 1,
                          fds[g], fcs)
         IN IF r.status = "raise"
            THEN Out("raise", <<>>, r.exc, <<>>, <<path, fds[g]>>)
            ELSE fds_loop(its, fds, g + 1, r.value)

get_feature_classes(af, its, ws) ==
    IF af
    THEN fds_loop(its, ListDatasets(its, <<path>>), 1, <<>>)
    ELSE LET r == guarded_loop(FALSE, its, layer_names(its, TRUE), 1,
                               GDB_FC_PROPS, <<>>, <<>>)
         IN Out("return", r.value, "", r.printed, ws)

(***************************************************************************)
(* Geodatabase.get_domains                                                 *)
(***************************************************************************)
\* arcpy.da.ListDomains(path): one domain object per domain definition
arcpy_domain(el) ==
    << <<"name", Str(IF Has(el, "DomainName")
                     THEN find(el, "DomainName").text ELSE "")>>,
       <<"domainType", Str(IF el.tag = "GPRangeDomain2"
                           THEN "Range" ELSE "CodedValue")>> >>

ListDomains(cat) ==
    LET rows == SelectSeq(cat, LAMBDA row :
                    row.kind = "xml" /\ row.root.tag \in DomainTags)
    IN [i \in 1..Len(rows) |-> arcpy_domain(rows[i].root)]

get_domains_arcpy(cat) ==
    LET doms == ListDomains(cat)
    IN Return([i \in 1..Len(doms) |->
                  project(doms[i], GDB_DOMAIN_PROPS, 1, <<>>)])

get_domains(af, order, cat) ==
    IF af THEN get_domains_arcpy(cat) ELSE get_domains_ogr(order, cat)

(***************************************************************************)
(* Geodatabases the model is run on                                        *)
(***************************************************************************)
Absent == "<absent>"
Opt(tag, text) == IF text = Absent THEN <<>> ELSE <<Leaf(tag, text)>>

WorkspaceDef(major, minor, bugfix) ==
    El("DEWorkspace", None,
       Opt("MajorVersion", major) \o Opt("MinorVersion", minor)
           \o Opt("BugfixVersion", bugfix))

RangeDef(lo, hi) ==
    El("GPRangeDomain2", None,
       <<Leaf("DomainName", "Elevation"), Leaf("Description", None),
         Leaf("FieldType", "esriFieldTypeInteger")>>
           \o Opt("MinValue", lo) \o Opt("MaxValue", hi))

CodedValue(cv) == El("CodedValue", None, Opt("Code", cv[1]) \o Opt("Name", cv[2]))

CodedDef(cvs) ==
    El("GPCodedValueDomain2", None,
       <<Leaf("DomainName", "LandUse"), Leaf("Owner", "dbo"),
         Leaf("FieldType", "esriFieldTypeString"),
         El("CodedValues", None, [i \in 1..Len(cvs) |-> CodedValue(cvs[i])])>>)

CodedDefNoValues ==
    El("GPCodedValueDomain2", None, <<Leaf("DomainName", "LandUse")>>)

RangeShapes == {
    <<"1", "5">>, <<"5.0", "1">>, <<Absent, "5">>, <<"5", None>> }

CodedShapes == {
    <<>>,
    << <<"A", "Agriculture">>, <<"B", "Built-up">> >>,
    << <<"A", "Agriculture">>, <<"A", "Arable">> >>,
    << <<"A", "Agriculture">>, <<Absent, "Built-up">> >>,
    << <<"A", "Agriculture">>, <<"B", Absent>> >>,
    << <<None, "Agriculture">> >> }

StdWorkspace == WorkspaceDef("3", "0", "0")

\* rows other than the workspace definition that is inserted below
BodyRows ==
    {NullRow, BadRow, Xml(WorkspaceDef("2", "3", "0")),
     Xml(WorkspaceDef("3", Absent, "0")),
     Xml(El("DETable", None, <<Leaf("Name", "Owners")>>)),
     Xml(CodedDefNoValues)}
    \cup {Xml(RangeDef(r[1], r[2])) : r \in RangeShapes}
    \cup {Xml(CodedDef(c)) : c \in CodedShapes}

Bodies == UNION {[1..n -> BodyRows] : n \in 0..MaxRows}

InsertAt(seq, p, row) ==
    [i \in 1..(Len(seq) + 1) |->
        IF i < p THEN seq[i] ELSE IF i = p THEN row ELSE seq[i - 1]]

\* any body, alone or with the workspace definition before or after it
Catalogs ==
    Bodies \cup
    {InsertAt(x[1], x[2], Xml(StdWorkspace)) :
        x \in {y \in Bodies \X (1..(MaxRows + 1)) : y[2] \in {1, Len(y[1]) + 1}}}

StdCatalog ==
    <<Xml(StdWorkspace), Xml(RangeDef("1", "5")),
      Xml(CodedDef(<< <<"A", "Agriculture">>, <<"B", "Built-up">> >>))>>

Item(name, geom, fd, fail, rows) ==
    [name |-> name, geom |-> geom, fd |-> fd, fail |-> fail, rows |-> rows]

ItemPool == {
    Item("owners", "", "", "none", 0),
    Item("owners", "", "", "open", 0),
    Item("permits", "", "", "none", 3),
    Item("permits", "", "", "count", 3),
    Item("parcels", "SHAPE", "", "none", 2),
    Item("parcels", "SHAPE", "Cadastre", "none", 2),
    Item("parcels", "SHAPE", "", "open", 2),
    Item("roads", "SHAPE", "Cadastre", "none", 5),
    Item("roads", "SHAPE", "Transport", "none", 5),
    Item("roads", "SHAPE", "Cadastre", "count", 5) }

\* dataset names are unique within a geodatabase
ItemSeqs ==
    {its \in UNION {[1..n -> ItemPool] : n \in 0..MaxItems} :
        \A i, j \in 1..Len(its) : i # j => its[i].name # its[j].name}

Desc(release, progid) == [release |-> release, progid |-> progid]

Descs == {
    Desc("3,0,0", "esriDataSourcesGDB.FileGDBWorkspaceFactory.1"),
    Desc("2,3,0", "esriDataSourcesGDB.AccessWorkspaceFactory.1"),
    Desc("9,9,9", "esriDataSourcesFile.ShapefileWorkspaceFactory.1") }

NoDesc == Desc("", "")
Unset == <<>>
Workspaces == {Unset, <<"C:/data/other.gdb">>}

(***************************************************************************)
(* State machine                                                           *)
(***************************************************************************)
NoCall ==
    [op |-> "none", status |-> "none", value |-> <<>>, exc |-> "",
     printed |-> <<>>]

Outcome(op, r) ==
    [op |-> op, status |-> r.status,
     value |-> IF r.status = "return" THEN r.value ELSE <<>>,
     exc |-> IF r.status = "raise" THEN r.exc ELSE "",
     printed |-> <<>>]

\* fallback backend, any catalog content
InitCatalogs ==
    /\ arcpy_found = FALSE
    /\ catalog \in Catalogs
    /\ items = <<>>
    /\ desc = NoDesc
    /\ workspace = Unset

\* either backend, any datasets
InitItems ==
    /\ arcpy_found \in BOOLEAN
    /\ catalog = StdCatalog
    /\ items \in ItemSeqs
    /\ desc \in (IF arcpy_found THEN Descs ELSE {NoDesc})
    /\ workspace \in (IF arcpy_found THEN Workspaces ELSE {Unset})

Init ==
    /\ InitCatalogs \/ InitItems
    /\ hash_order \in HashOrders
    /\ self = <<>>
    /\ ret = NoCall

\* Geodatabase(path)
Construct ==
    /\ self = <<>>
    /\ LET r == geodatabase_init(arcpy_found, catalog, desc)
       IN /\ self' = IF r.status = "return" THEN r.value ELSE self
          /\ ret' = [Outcome("__init__", r) EXCEPT !.value = <<>>]
    /\ UNCHANGED <<arcpy_found, catalog, items, desc, workspace, hash_order>>

GetPrettyProps ==
    /\ self # <<>>
    /\ ret' = Outcome("get_pretty_props", get_pretty_props(self))
    /\ UNCHANGED <<arcpy_found, catalog, items, desc, workspace, hash_order,
                   self>>

GetDomains ==
    /\ self # <<>>
    /\ ret' = Outcome("get_domains",
                      get_domains(arcpy_found, hash_order, catalog))
    /\ UNCHANGED <<arcpy_found, catalog, items, desc, workspace, hash_order,
                   self>>

GetTables ==
    /\ self # <<>>
    /\ LET r == get_tables(arcpy_found, items, workspace)
       IN /\ ret' = [op |-> "get_tables", status |-> r.status,
                     value |-> r.value, exc |-> r.exc, printed |-> r.printed]
          /\ workspace' = r.ws
    /\ UNCHANGED <<arcpy_found, catalog, items, desc, hash_order, self>>

GetFeatureClasses ==
    /\ self # <<>>
    /\ LET r == get_feature_classes(arcpy_found, items, workspace)
       IN /\ ret' = [op |-> "get_feature_classes", status |-> r.status,
                     value |-> r.value, exc |-> r.exc, printed |-> r.printed]
          /\ workspace' = r.ws
    /\ UNCHANGED <<arcpy_found, catalog, items, desc, hash_order, self>>

\* the metadata read on its own (ogr is only imported without arcpy)
OgrGetGdbMetadata ==
    /\ ~arcpy_found
    /\ ret' = Outcome("_ogr_get_gdb_metadata", ogr_get_gdb_metadata(catalog))
    /\ UNCHANGED <<arcpy_found, catalog, items, desc, workspace, hash_order,
                   self>>

Next ==
    \/ Construct
    \/ GetPrettyProps
    \/ GetDomains
    \/ GetTables
    \/ GetFeatureClasses
    \/ OgrGetGdbMetadata

Spec == Init /\ [][Next]_vars

(***************************************************************************)
(* Properties                                                              *)
(***************************************************************************)
Range(seq) == {seq[i] : i \in 1..Len(seq)}

\* the labels under which the properties read below are reported
NameLabel == OdGet(GDB_FC_PROPS, "name")
RangeLabel == OdGet(OGR_GDB_DOMAIN_PROPS, "range")
CodedLabel == OdGet(OGR_GDB_DOMAIN_PROPS, "codedValues")
TypeLabel == OdGet(OGR_GDB_DOMAIN_PROPS, "domainType")
Fallback == ~arcpy_found
Returned(op) == ret.op = op /\ ret.status = "return"
QueryOps == {"get_pretty_props", "get_domains", "get_tables",
             "get_feature_classes"}

\* the entries of a returned value (get_pretty_props returns one mapping)
Entries(op, value) == IF op = "get_pretty_props" THEN {value} ELSE Range(value)

\* what the fallback backend returns for the same geodatabase
FallbackEntries(op) ==
    IF op = "get_pretty_props"
    THEN LET d == geodatabase_init(FALSE, catalog, desc)
         IN IF d.status = "raise" THEN {}
            ELSE Entries(op, get_pretty_props(d.value).value)
    ELSE IF op = "get_domains"
    THEN LET r == get_domains(FALSE, hash_order, catalog)
         IN IF r.status = "raise" THEN {} ELSE Range(r.value)
    ELSE IF op = "get_tables"
    THEN Range(get_tables(FALSE, items, workspace).value)
    ELSE Range(get_feature_classes(FALSE, items, workspace).value)

\* C1: for a geodatabase both backends can read, the entries of each query
\* method have the same keys in the same order on the primary backend as on
\* the fallback backend.
C1_SameKeysOnBothBackends ==
    (arcpy_found /\ ret.op \in QueryOps /\ ret.status = "return")
        => \A e \in Entries(ret.op, ret.value), f \in FallbackEntries(ret.op) :
               Keys(e) = Keys(f)

\* the items a listing method is expected to report, by name
Listed(op) ==
    {it \in Range(items) : (it.geom # "") = (op = "get_feature_classes")}
EntryNames(value) == {OdGet(e, NameLabel).s : e \in Range(value)}

\* C2: get_tables() and get_feature_classes() never raise on either backend;
\* they return exactly the items that could be read, skipping the others.
C2_BadItemSkipped ==
    ret.op \in {"get_tables", "get_feature_classes"}
        => /\ ret.status = "return"
           /\ EntryNames(ret.value)
                  = {it.name : it \in {x \in Listed(ret.op) : x.fail = "none"}}

\* C3: on the primary backend every entry of get_feature_classes() carries
\* under 'Feature dataset' the name of the dataset holding that feature class,
\* the empty string for one at the root, and every feature class is listed.
C3_TaggedWithContainer ==
    (arcpy_found /\ Returned("get_feature_classes"))
        => /\ \A e \in Range(ret.value) :
                  /\ OdGet(e, NameLabel).s \in {it.name : it \in Range(items)}
                  /\ OdGet(e, "Feature dataset")
                         = Str(item_named(items, OdGet(e, NameLabel).s, 1).fd)
           /\ EntryNames(ret.value) = {it.name : it \in Listed(ret.op)}
           /\ Len(ret.value) = Cardinality(Listed(ret.op))

C3_Witness ==
    /\ arcpy_found /\ Returned("get_feature_classes")
    /\ \E e \in Range(ret.value) : OdGet(e, "Feature dataset") = Str("")
    /\ \E e \in Range(ret.value) : OdGet(e, "Feature dataset") = Str("Cadastre")

DomainRows(cat) ==
    SelectSeq(cat, LAMBDA row : row.kind = "xml" /\ row.root.tag \in DomainTags)

\* the kind of domain get_domains() reports first under a hash order
FirstTag(order, cat) ==
    LET rows == DomainRows(cat)
        seen == IF rows = <<>> THEN "GPCodedValueDomain2" ELSE rows[1].root.tag
        other == CHOOSE t \in DomainTags : t # seen
    IN CASE order = "coded_first" -> "GPCodedValueDomain2"
         [] order = "range_first" -> "GPRangeDomain2"
         [] order = "insertion" -> seen
         [] order = "reverse_insertion" -> other

\* the domain definitions of a catalog in the order get_domains() reports
\* them: the definitions of one kind in catalog order, then those of the
\* other kind in catalog order
SourceDomainsIn(order, cat) ==
    LET rows == DomainRows(cat)
        ordered == SelectSeq(rows, LAMBDA r : r.root.tag = FirstTag(order, cat))
                   \o SelectSeq(rows, LAMBDA r : r.root.tag # FirstTag(order, cat))
    IN [i \in 1..Len(ordered) |-> ordered[i].root]

SourceDomains(cat) == SourceDomainsIn(hash_order, cat)

CodedValuesOf(def) ==
    IF Has(def, "CodedValues")
    THEN Range(findall(find(def, "CodedValues"), "CodedValue")) ELSE {}

Codes(def) ==
    {find(cv, "Code").text : cv \in {c \in CodedValuesOf(def) : Has(c, "Code")}}

MappingKeys(v) == IF v.t = "dict" THEN KeySet(v.d) ELSE {}

\* C4 as stated: for every coded-value domain the keys of the returned
\* mapping are exactly the codes of the definition's CodedValue children,
\* whatever the definition.
C4_KeysAreAllCodes ==
    (Fallback /\ Returned("get_domains"))
        => \A i \in 1..Len(ret.value) :
               SourceDomains(catalog)[i].tag = "GPCodedValueDomain2"
                   => MappingKeys(OdGet(ret.value[i], CodedLabel))
                          = Codes(SourceDomains(catalog)[i])

WellFormedCodes(def) ==
    /\ Has(def, "CodedValues")
    /\ \A cv \in CodedValuesOf(def) : Has(cv, "Code") /\ Has(cv, "Name")

\* C4 amended: when the definition has a CodedValues element whose CodedValue
\* children all have a Code and a Name, the value is a mapping whose keys are
\* exactly the codes (repeated codes give one key); otherwise the value is
\* the empty string.
C4_KeysAreCodesWhenWellFormed ==
    (Fallback /\ Returned("get_domains"))
        => \A i \in 1..Len(ret.value) :
               LET def == SourceDomains(catalog)[i]
                   v == OdGet(ret.value[i], CodedLabel)
               IN def.tag = "GPCodedValueDomain2"
                      => IF WellFormedCodes(def)
                         THEN v.t = "dict" /\ KeySet(v.d) = Codes(def)
                         ELSE v = Str("")

C4_Witness ==
    /\ Fallback /\ Returned("get_domains")
    /\ \E i \in 1..Len(ret.value) :
           LET def == SourceDomains(catalog)[i]
           IN /\ def.tag = "GPCodedValueDomain2" /\ WellFormedCodes(def)
              /\ Len(findall(find(def, "CodedValues"), "CodedValue")) = 2
              /\ Cardinality(Codes(def)) = 1
    /\ \E i \in 1..Len(ret.value) :
           LET def == SourceDomains(catalog)[i]
           IN /\ def.tag = "GPCodedValueDomain2" /\ ~WellFormedCodes(def)
              /\ Codes(def) # {}

BothBounds(def) == Has(def, "MinValue") /\ Has(def, "MaxValue")

\* C5 as stated: a range domain's value is a pair with min <= max when both
\* bounds are present, and the empty string otherwise.
C5_RangeOrdered ==
    (Fallback /\ Returned("get_domains"))
        => \A i \in 1..Len(ret.value) :
               LET def == SourceDomains(catalog)[i]
                   v == OdGet(ret.value[i], RangeLabel)
               IN def.tag = "GPRangeDomain2"
                      => IF BothBounds(def)
                         THEN v.t = "tuple" /\ v.lo <= v.hi
                         ELSE v = Str("")

\* C5 amended: a range domain's value is the pair (MinValue, MaxValue) of the
\* definition as numbers, in that order and as found (so min <= max exactly
\* when the definition has it), when both elements are present, and the
\* empty string when either is absent.
C5_RangeAsInSource ==
    (Fallback /\ Returned("get_domains"))
        => \A i \in 1..Len(ret.value) :
               LET def == SourceDomains(catalog)[i]
                   v == OdGet(ret.value[i], RangeLabel)
               IN def.tag = "GPRangeDomain2"
                      => IF BothBounds(def)
                         THEN v = Tuple(
                                  OdGet(NumericTexts, find(def, "MinValue").text),
                                  OdGet(NumericTexts, find(def, "MaxValue").text))
                         ELSE v = Str("")

C5_Witness ==
    /\ Fallback /\ Returned("get_domains")
    /\ \E i \in 1..Len(ret.value) :
           LET v == OdGet(ret.value[i], RangeLabel)
           IN v.t = "tuple" /\ v.lo > v.hi
    /\ \E i \in 1..Len(ret.value) :
           /\ SourceDomains(catalog)[i].tag = "GPRangeDomain2"
           /\ ~BothBounds(SourceDomains(catalog)[i])

\* a sub-element that is absent, or present without text
Missing(el, tag) == ~Has(el, tag) \/ find(el, tag).text = None

\* a coded-value list that cannot be read: no CodedValues element, or a
\* CodedValue without a Code or a Name element
CodedMissing(def) ==
    \/ ~Has(def, "CodedValues")
    \/ \E cv \in CodedValuesOf(def) : ~Has(cv, "Code") \/ ~Has(cv, "Name")

PlainProps ==
    SelectSeq(OGR_GDB_DOMAIN_PROPS,
              LAMBDA kv : kv[1] \notin {"domainType", "range", "codedValues"})

\* C6: on a catalog of well-formed XML get_domains() returns whichever
\* optional sub-elements are absent or without text, and every property whose
\* sub-element is missing has the empty string as its value.
C6_MissingGivesPlaceholder ==
    (Fallback /\ ret.op = "get_domains"
        /\ \A row \in Range(catalog) : row.kind # "malformed")
        => /\ ret.status = "return"
           /\ \A i \in 1..Len(ret.value) :
                  LET def == SourceDomains(catalog)[i]
                      e == ret.value[i]
                  IN /\ (Missing(def, "MinValue") \/ Missing(def, "MaxValue"))
                            => OdGet(e, RangeLabel) = Str("")
                     /\ CodedMissing(def) => OdGet(e, CodedLabel) = Str("")
                     /\ \A kv \in Range(PlainProps) :
                            Missing(def, kv[1]) => OdGet(e, kv[2]) = Str("")

RowsTagged(cat, tag) ==
    {i \in 1..Len(cat) : cat[i].kind = "xml" /\ cat[i].root.tag = tag}

\* the entries whose domain type is the label the static lookup gives a tag
EntriesLabelled(value, tag) ==
    {i \in 1..Len(value) :
        OdGet(value[i], TypeLabel) = Str(OdGet(OGR_DOMAIN_PROPS_MAPPINGS, tag))}

\* C7: get_domains() returns one entry per catalog row whose definition has
\* root tag GPCodedValueDomain2 or GPRangeDomain2, labelled by the static
\* lookup of that tag, and nothing for any other row.
C7_OneEntryPerDomainRow ==
    (Fallback /\ Returned("get_domains"))
        => /\ Cardinality(EntriesLabelled(ret.value, "GPCodedValueDomain2"))
                  = Cardinality(RowsTagged(catalog, "GPCodedValueDomain2"))
           /\ Cardinality(EntriesLabelled(ret.value, "GPRangeDomain2"))
                  = Cardinality(RowsTagged(catalog, "GPRangeDomain2"))
           /\ Len(ret.value)
                  = Cardinality(RowsTagged(catalog, "GPCodedValueDomain2"))
                    + Cardinality(RowsTagged(catalog, "GPRangeDomain2"))

C7_Witness ==
    /\ Fallback /\ Returned("get_domains")
    /\ Len(ret.value) = 2
    /\ Len(catalog) > 2
    /\ \E i, j \in 1..Len(catalog) :
           /\ i < j
           /\ catalog[i].kind = "xml" /\ catalog[j].kind = "xml"
           /\ catalog[i].root.tag = catalog[j].root.tag
           /\ catalog[i].root.tag \in DomainTags

\* C8 as stated: no step changes the backend flag or the global workspace.
C8_GlobalsUntouched ==
    [][arcpy_found' = arcpy_found /\ workspace' = workspace]_vars

\* C8 amended: no call changes the backend flag; get_pretty_props() and
\* get_domains(), and every call on the fallback backend, leave the global
\* workspace as it was; on the primary backend get_tables() and
\* get_feature_classes() overwrite it, with the geodatabase path when they
\* return and with the path or a feature dataset below it when
\* get_feature_classes() raises.
C8_WorkspaceOverwritten ==
    [][/\ arcpy_found' = arcpy_found
       /\ (ret'.op \notin {"get_tables", "get_feature_classes"} \/ Fallback)
              => workspace' = workspace
       /\ (ret'.op \in {"get_tables", "get_feature_classes"} /\ arcpy_found)
              => IF ret'.status = "return" THEN workspace' = <<path>>
                 ELSE /\ ret'.op = "get_feature_classes"
                      /\ workspace'[1] = path /\ Len(workspace') \in {1, 2}
      ]_vars

C8_Witness ==
    /\ arcpy_found /\ Returned("get_tables")
    /\ workspace = <<path>>

\* C9: whenever _ogr_get_gdb_metadata() returns, the element it returns is a
\* DEWorkspace definition.
C9_MetadataIsWorkspace ==
    (Fallback /\ Returned("_ogr_get_gdb_metadata"))
        => ret.value.tag = "DEWorkspace"

NamesOf(value) == [i \in 1..Len(value) |-> OdGet(value[i], NameLabel).s]

\* C10: on the fallback backend, when no item fails to read, get_tables()
\* lists exactly the layers without a geometry column and
\* get_feature_classes() exactly those with one, each layer once, so the two
\* lengths add up to the layer count.
C10_LayersPartitioned ==
    (Fallback /\ ret.op \in {"get_tables", "get_feature_classes"}
        /\ \A it \in Range(items) : it.fail = "none")
        => LET other == IF ret.op = "get_tables"
                        THEN get_feature_classes(arcpy_found, items, workspace)
                        ELSE get_tables(arcpy_found, items, workspace)
               tbls == IF ret.op = "get_tables" THEN ret.value ELSE other.value
               fcs == IF ret.op = "get_tables" THEN other.value ELSE ret.value
           IN /\ ret.status = "return" /\ other.status = "return"
              /\ NamesOf(tbls)
                     = names_of(SelectSeq(items, LAMBDA it : it.geom = ""))
              /\ NamesOf(fcs)
                     = names_of(SelectSeq(items, LAMBDA it : it.geom # ""))
              /\ Range(NamesOf(tbls)) \cap Range(NamesOf(fcs)) = {}
              /\ Len(tbls) + Len(fcs) = Len(items)

C10_Witness ==
    /\ Fallback /\ Returned("get_feature_classes")
    /\ \A it \in Range(items) : it.fail = "none"
    /\ \E it \in Range(items) : it.geom = ""
    /\ \E it \in Range(items) : it.geom # ""
    /\ Len(ret.value) = 1

====
